---- MODULE Spec2Model ----
(***************************************************************************)
(* The video ingestion pipeline of fluency-admin: run_pipeline (api.py,    *)
(* started by the /capture endpoint) and process_video (admin.py, started  *)
(* by the upload form).  A run is a sequential task that blocks in one     *)
(* external call at a time; pc[r] names the stage whose external call run  *)
(* r is blocked in.  Runs share the local file system, the "videos"        *)
(* storage bucket and the two tables.                                      *)
(***************************************************************************)
EXTENDS Integers, Sequences, FiniteSets, TLC

\* ---- bounds -------------------------------------------------------------
MaxRuns == 2
MaxQuestions == 3

\* ---- program constants --------------------------------------------------
MIN_DURATION == 5
MIN_TRANSCRIPT_LEN == 20

Runs == 1..MaxRuns

\* ---- strings as sequences of characters ---------------------------------
Letters == {"a", "b", "U", "n", "t", "i", "l", "e", "d", "V", "o"}
Untitled == <<"U", "n", "t", "i", "t", "l", "e", "d">>
Video == <<"V", "i", "d", "e", "o">>
Titles == {<<"a", " ", "b">>, <<"a", "/", "b">>}

\* str.isalnum for one character
isalnum(x) == x \in Letters

\* "".join(x for x in title if x.isalnum() or x in " _-")
safe_title(title) == SelectSeq(title, LAMBDA x : isalnum(x) \/ x \in {" ", "_", "-"})

\* s.replace(' ', '_')
replace_spaces(s) == [i \in 1..Len(s) |-> IF s[i] = " " THEN "_" ELSE s[i]]

\* f"{...}.mp4"
mp4_suffix(s) == s \o <<".mp4">>

\* api.py: the storage key derived from the title
api_filename(title) == mp4_suffix(replace_spaces(safe_title(title)))

\* admin.py: the storage key derived from the title
admin_filename(title) == mp4_suffix(replace_spaces(title))

\* supabase get_public_url: the bucket's public prefix followed by the key
get_public_url(key) == <<"videos/">> \o key

\* ---- local paths ---------------------------------------------------------
NoPath == [name |-> "", n |-> 0, ext |-> ""]

\* the locators that can be submitted, and what yt_dlp finds at the non-empty ones
Urls == {"", "u1", "u2"}
source_id(u) == IF u = "u1" THEN "v1" ELSE "v2"
source_ext(u) == IF u = "u1" THEN "mp4" ELSE "webm"

\* outtmpl 'temp_%(id)s.%(ext)s'
prepare_filename(u) == [name |-> source_id(u), n |-> 0, ext |-> source_ext(u)]

\* video_path.replace(".mp4", ".mp3")
replace_ext(p) == IF p.ext = "mp4" THEN [p EXCEPT !.ext = "mp3"] ELSE p

\* tempfile.NamedTemporaryFile(delete=False, suffix=".mp4"): a fresh name
named_temporary_file(r) == [name |-> "tmp", n |-> r, ext |-> "mp4"]

\* admin.py: audio_path = "temp_audio.mp3"
temp_audio == [name |-> "temp_audio", n |-> 0, ext |-> "mp3"]

\* ---- inputs of the external services -------------------------------------
Durations == {MIN_DURATION - 1, MIN_DURATION}
TranscriptLens == {MIN_TRANSCRIPT_LEN - 1, MIN_TRANSCRIPT_LEN}

\* a dict field is a set: {} when the key is absent, {v} when present
get(field, default) == IF field = {} THEN default ELSE CHOOSE v \in field : TRUE

GoodQ == [stage |-> {0}, q |-> {"q"}, correct |-> {"c"}, wrong |-> {<<"w1", "w2", "w3">>}]
PartialQ == [stage |-> {}, q |-> {}, correct |-> {}, wrong |-> {}]
BadStageQ == [stage |-> {7}, q |-> {"q"}, correct |-> {"c"}, wrong |-> {<<"w1">>}]
DraftAt(i) == IF i % 3 = 1 THEN GoodQ ELSE IF i % 3 = 2 THEN PartialQ ELSE BadStageQ
DraftList(n) == [i \in 1..n |-> DraftAt(i)]

NoMeta == [isdict |-> TRUE, title |-> {}, category |-> {}, sub_category |-> {}]
NullMeta == [NoMeta EXCEPT !.isdict = FALSE]
CategoryOnlyMeta == [NoMeta EXCEPT !.category = {"Psychology"}]
FullMeta(t) == [isdict |-> TRUE, title |-> {t}, category |-> {"Psychology"},
                sub_category |-> {"Behavior"}]

\* the parsed generative responses: 'metadata' and 'questions' are optional keys
Responses ==
    {[metadata |-> {}, questions |-> {}]}
    \cup {[metadata |-> {}, questions |-> {DraftList(n)}] : n \in 0..MaxQuestions}
    \cup {[metadata |-> {FullMeta(t)}, questions |-> {DraftList(1)}] : t \in Titles}
    \cup {[metadata |-> {NullMeta}, questions |-> {DraftList(1)}]}
    \cup {[metadata |-> {CategoryOnlyMeta}, questions |-> {}]}
NoResponse == [metadata |-> {}, questions |-> {}]

\* the upload forms that can be submitted: file, title, category, sub_category
Forms ==
    {[file |-> TRUE, title |-> <<"a", " ", "b">>, category |-> "Science", sub_category |-> ""],
     [file |-> TRUE, title |-> <<"a", "/", "b">>, category |-> "Other", sub_category |-> "Research"],
     [file |-> FALSE, title |-> <<"a", " ", "b">>, category |-> "Science", sub_category |-> ""],
     [file |-> TRUE, title |-> <<>>, category |-> "Science", sub_category |-> ""]}
NoForm == [file |-> FALSE, title |-> <<>>, category |-> "", sub_category |-> ""]

VARIABLES
    pc,               \* the stage run r is blocked in, or idle/queued/Done/Aborted
    entry,            \* "api" (run_pipeline) or "admin" (process_video)
    response,         \* what the trigger answered: "none", "processing" or "warning"
    url,              \* run_pipeline's argument
    form,             \* the submitted upload form: process_video's arguments
    video_path,       \* local: the temporary video file
    audio_path,       \* local: the temporary audio file
    duration,         \* video.duration of the opened clip, -1 before it is opened
    handle,           \* the VideoFileClip: "none", "open" or "closed"
    transcript_len,   \* len(transcript.text), -1 before transcription
    ai_data,          \* the parsed generative response
    filename,         \* the storage key
    public_url,       \* the URL resolved after upload
    new_id,           \* the id returned by the content_library insert, 0 before
    log,              \* what the run has printed / shown, in order
    stages,           \* the stages the run has started, in order
    calls,            \* the external calls the run has started
    escaped,          \* the run ended with an exception that left the function
    fs,               \* local files: [path, by] with by the run that wrote it last
    storage,          \* the "videos" bucket: [key, by]
    content_library,  \* table content_library, in insert order
    questions         \* table questions, in insert order

vars == <<pc, entry, response, url, form, video_path, audio_path, duration, handle,
          transcript_len, ai_data, filename, public_url, new_id, log, stages, calls,
          escaped, fs, storage, content_library, questions>>

locals == <<video_path, audio_path, duration, handle, transcript_len, ai_data,
            filename, public_url, new_id>>
stores == <<storage, content_library, questions>>

Terminal == {"Done", "Aborted"}

Init ==
    /\ pc = [r \in Runs |-> "idle"]
    /\ entry = [r \in Runs |-> "none"]
    /\ response = [r \in Runs |-> "none"]
    /\ url = [r \in Runs |-> ""]
    /\ form = [r \in Runs |-> NoForm]
    /\ video_path = [r \in Runs |-> NoPath]
    /\ audio_path = [r \in Runs |-> NoPath]
    /\ duration = [r \in Runs |-> -1]
    /\ handle = [r \in Runs |-> "none"]
    /\ transcript_len = [r \in Runs |-> -1]
    /\ ai_data = [r \in Runs |-> NoResponse]
    /\ filename = [r \in Runs |-> <<>>]
    /\ public_url = [r \in Runs |-> <<>>]
    /\ new_id = [r \in Runs |-> 0]
    /\ log = [r \in Runs |-> <<>>]
    /\ stages = [r \in Runs |-> <<>>]
    /\ calls = [r \in Runs |-> {}]
    /\ escaped = [r \in Runs |-> FALSE]
    /\ fs = {}
    /\ storage = {}
    /\ content_library = <<>>
    /\ questions = <<>>

\* ---- helpers on the shared state -----------------------------------------
exists(files, p) == \E f \in files : f.path = p

\* open(p, "w") / write: the file at p is now the one written by r
write_file(files, p, r) == {f \in files : f.path # p} \cup {[path |-> p, by |-> r]}

\* os.remove(p)
remove(files, p) == {f \in files : f.path # p}

\* if os.path.exists(p): os.remove(p)
remove_if_exists(files, p) == IF exists(files, p) THEN remove(files, p) ELSE files

\* storage upload without upsert semantics: an existing object is kept
upload_keep_existing(objects, key, r) ==
    IF \E o \in objects : o.key = key THEN objects
    ELSE objects \cup {[key |-> key, by |-> r]}

\* storage upload with x-upsert: the object under key is replaced
upload(objects, key, r) == {o \in objects : o.key # key} \cup {[key |-> key, by |-> r]}

\* the run prints msgs, in order
Say(r, msgs) == log' = [log EXCEPT ![r] = @ \o msgs]

\* the run returns early (a handled abort)
Return(r, msg) ==
    /\ pc' = [pc EXCEPT ![r] = "Aborted"]
    /\ Say(r, <<msg>>)
    /\ UNCHANGED escaped

\* an exception leaves the function: nothing is printed by the pipeline
Raise(r) ==
    /\ pc' = [pc EXCEPT ![r] = "Aborted"]
    /\ escaped' = [escaped EXCEPT ![r] = TRUE]
    /\ UNCHANGED log

\* the run starts stage s and blocks in its external call
Enter(r, s) ==
    /\ pc' = [pc EXCEPT ![r] = s]
    /\ stages' = [stages EXCEPT ![r] = Append(@, s)]

\* the run starts the external calls cs
Calls(r, cs) == calls' = [calls EXCEPT ![r] = @ \cup cs]
Call(r, c) == Calls(r, {c})

\* ---- api.py --------------------------------------------------------------
\* POST /capture: the pipeline is queued as a background task
capture_video(r, u) ==
    /\ pc[r] = "idle"
    /\ \A s \in Runs : s < r => pc[s] # "idle"
    /\ pc' = [pc EXCEPT ![r] = "queued"]
    /\ entry' = [entry EXCEPT ![r] = "api"]
    /\ response' = [response EXCEPT ![r] = "processing"]
    /\ url' = [url EXCEPT ![r] = u]
    /\ UNCHANGED <<form, locals, log, stages, calls, escaped, fs, stores>>

\* run_pipeline, up to the call of download_video
api_start(r) ==
    /\ pc[r] = "queued"
    /\ entry[r] = "api"
    /\ IF url[r] = ""
       THEN Return(r, "EmptyUrl") /\ UNCHANGED <<stages, calls>>
       ELSE Enter(r, "Acquiring") /\ Call(r, "download") /\ UNCHANGED <<log, escaped>>
    /\ UNCHANGED <<entry, response, url, form, locals, fs, stores>>

\* 1. Download: download_video returns or raises
api_download(r) ==
    /\ pc[r] = "Acquiring"
    /\ entry[r] = "api"
    /\ \E ok \in BOOLEAN :
         IF ok
         THEN /\ video_path' = [video_path EXCEPT ![r] = prepare_filename(url[r])]
              /\ audio_path' = [audio_path EXCEPT ![r] = replace_ext(prepare_filename(url[r]))]
              /\ fs' = write_file(fs, prepare_filename(url[r]), r)
              /\ Enter(r, "ExtractingAudio")
              /\ Call(r, "decode")
              /\ UNCHANGED <<log, escaped>>
         ELSE /\ Return(r, "DownloadFailed")
              /\ UNCHANGED <<video_path, audio_path, fs, stages, calls>>
    /\ UNCHANGED <<entry, response, url, form, duration, handle, transcript_len, ai_data,
                   filename, public_url, new_id, stores>>

\* the duration guard, off by one
too_short_off_by_one(d) == d < MIN_DURATION - 1

\* the duration guard of run_pipeline
too_short(d) == d < MIN_DURATION

\* 2. Extract Audio: open the clip, check its duration, write the audio file
api_extract_audio(r) ==
    /\ pc[r] = "ExtractingAudio"
    /\ entry[r] = "api"
    /\ \/ \* VideoFileClip raises
          /\ Return(r, "AudioError")
          /\ UNCHANGED <<duration, handle, fs, stages, calls>>
       \/ \E d \in Durations, written \in BOOLEAN, partial \in BOOLEAN :
            /\ exists(fs, video_path[r])
            /\ duration' = [duration EXCEPT ![r] = d]
            /\ IF too_short(d)
               THEN /\ written /\ partial
                    /\ handle' = [handle EXCEPT ![r] = "closed"]
                    /\ Return(r, "TooShort")
                    /\ UNCHANGED <<fs, stages, calls>>
               ELSE IF written
               THEN /\ partial
                    /\ fs' = write_file(fs, audio_path[r], r)
                    /\ handle' = [handle EXCEPT ![r] = "closed"]
                    /\ Enter(r, "Transcribing")
                    /\ Calls(r, {"write_audiofile", "whisper"})
                    /\ UNCHANGED <<log, escaped>>
               ELSE \* write_audiofile raises, the handle is not closed
                    /\ fs' = IF partial THEN write_file(fs, audio_path[r], r) ELSE fs
                    /\ handle' = [handle EXCEPT ![r] = "open"]
                    /\ Return(r, "AudioError")
                    /\ Calls(r, {"write_audiofile"})
                    /\ UNCHANGED stages
    /\ UNCHANGED <<entry, response, url, form, video_path, audio_path, transcript_len,
                   ai_data, filename, public_url, new_id, stores>>

\* the transcript guard, off by one
too_brief_off_by_one(n) == n < MIN_TRANSCRIPT_LEN - 1

\* the transcript guard of run_pipeline
too_brief(n) == n < MIN_TRANSCRIPT_LEN

\* 3. Transcribe: outside any try, an exception leaves run_pipeline
api_transcribe(r) ==
    /\ pc[r] = "Transcribing"
    /\ entry[r] = "api"
    /\ \/ \* open(audio_path) or the speech service raises
          /\ Raise(r)
          /\ UNCHANGED <<transcript_len, stages, calls>>
       \/ \E n \in TranscriptLens :
            /\ exists(fs, audio_path[r])
            /\ transcript_len' = [transcript_len EXCEPT ![r] = n]
            /\ IF too_brief(n)
               THEN Return(r, "TranscriptTooShort") /\ UNCHANGED <<stages, calls>>
               ELSE Enter(r, "Synthesizing") /\ Call(r, "gpt") /\ UNCHANGED <<log, escaped>>
    /\ UNCHANGED <<entry, response, url, form, video_path, audio_path, duration, handle,
                   ai_data, filename, public_url, new_id, fs, stores>>

\* 4. AI Analysis, then the storage key of step 5
api_synthesize(r) ==
    /\ pc[r] = "Synthesizing"
    /\ entry[r] = "api"
    /\ \/ \* the request or json.loads raises
          /\ Return(r, "AIJSONError")
          /\ UNCHANGED <<ai_data, filename, stages, calls>>
       \/ \E resp \in Responses :
            LET meta == get(resp.metadata, NoMeta) IN
            /\ ai_data' = [ai_data EXCEPT ![r] = resp]
            /\ IF meta.isdict
               THEN /\ filename' = [filename EXCEPT ![r] = api_filename(get(meta.title, Video))]
                    /\ Enter(r, "Publishing")
                    /\ Call(r, "upload")
                    /\ UNCHANGED <<log, escaped>>
               ELSE \* meta.get on a non-dict raises outside the try
                    /\ Raise(r)
                    /\ UNCHANGED <<filename, stages, calls>>
    /\ UNCHANGED <<entry, response, url, form, video_path, audio_path, duration, handle,
                   transcript_len, public_url, new_id, fs, stores>>

\* the except clause of step 5 without its return: the run goes on to step 6
api_upload_except_no_return(r) ==
    /\ Say(r, <<"UploadError">>)
    /\ Enter(r, "Persisting")
    /\ Call(r, "db_content")
    /\ UNCHANGED <<storage, public_url, escaped>>

\* the except clause of step 5 as a retry from step 4
api_upload_except_retry(r) ==
    /\ pc' = [pc EXCEPT ![r] = "Synthesizing"]
    /\ UNCHANGED <<log, escaped, storage, public_url, stages, calls>>

\* the except clause of step 5: print and return
api_upload_except(r) ==
    /\ Return(r, "UploadError")
    /\ UNCHANGED <<storage, public_url, stages, calls>>

\* the try block of step 5 when nothing raises
api_upload_try(r) ==
    /\ exists(fs, video_path[r])
    /\ storage' = upload(storage, filename[r], r)
    /\ public_url' = [public_url EXCEPT ![r] = get_public_url(filename[r])]
    /\ Enter(r, "Persisting")
    /\ Call(r, "db_content")
    /\ UNCHANGED <<log, escaped>>

\* 5. Upload Video
api_upload(r) ==
    /\ pc[r] = "Publishing"
    /\ entry[r] = "api"
    /\ \/ \* open(video_path) or the upload raises
          api_upload_except(r)
       \/ api_upload_try(r)
    /\ UNCHANGED <<entry, response, url, form, video_path, audio_path, duration, handle,
                   transcript_len, ai_data, filename, new_id, fs, content_library,
                   questions>>

\* Cleanup that removes the video file only
api_cleanup_video_only(files, r) == remove_if_exists(files, video_path[r])

\* Cleanup of run_pipeline
api_cleanup(files, r) ==
    remove_if_exists(remove_if_exists(files, video_path[r]), audio_path[r])

\* the end of run_pipeline after the try of step 6: cleanup, then the last print
api_finish(r, msgs) ==
    /\ fs' = api_cleanup(fs, r)
    /\ Say(r, msgs \o <<"Complete">>)
    /\ pc' = [pc EXCEPT ![r] = "Done"]
    /\ UNCHANGED <<escaped, stages>>

\* vid_data with the default title of the storage key instead of 'Untitled'
api_vid_data_video_default(r, id) ==
    LET meta == get(ai_data[r].metadata, NoMeta) IN
    [id |-> id, by |-> r,
     video_url |-> public_url[r],
     title |-> get(meta.title, Video),
     transcript_len |-> transcript_len[r],
     category |-> <<get(meta.category, "General")>>,
     sub_category |-> meta.sub_category,
     duration_seconds |-> duration[r]]

\* vid_data of run_pipeline, as stored with the id the table assigns
api_vid_data(r, id) ==
    LET meta == get(ai_data[r].metadata, NoMeta) IN
    [id |-> id, by |-> r,
     video_url |-> public_url[r],
     title |-> get(meta.title, Untitled),
     transcript_len |-> transcript_len[r],
     category |-> <<get(meta.category, "General")>>,
     sub_category |-> meta.sub_category,
     duration_seconds |-> duration[r]]

\* the rows with the id of the table's latest row instead of the returned id
api_q_inserts_latest_id(r, id) ==
    LET qs == get(ai_data[r].questions, <<>>) IN
    [i \in 1..Len(qs) |->
       [video_id |-> Len(content_library), by |-> r,
        difficulty_phase |-> get(qs[i].stage, 0),
        question_text |-> get(qs[i].q, "Error"),
        correct_answer |-> get(qs[i].correct, "Error"),
        wrong_options |-> get(qs[i].wrong, <<>>)]]

\* the rows run_pipeline builds from the questions of the response
api_q_inserts(r, id) ==
    LET qs == get(ai_data[r].questions, <<>>) IN
    [i \in 1..Len(qs) |->
       [video_id |-> id, by |-> r,
        difficulty_phase |-> get(qs[i].stage, 0),
        question_text |-> get(qs[i].q, "Error"),
        correct_answer |-> get(qs[i].correct, "Error"),
        wrong_options |-> get(qs[i].wrong, <<>>)]]

\* 6. Save DB: the content_library insert
api_insert_content(r) ==
    /\ pc[r] = "Persisting"
    /\ entry[r] = "api"
    /\ \/ \* the insert raises
          /\ api_finish(r, <<"DBSaveError">>)
          /\ UNCHANGED <<content_library, new_id, calls>>
       \/ LET id == Len(content_library) + 1 IN
          /\ content_library' = Append(content_library, api_vid_data(r, id))
          /\ new_id' = [new_id EXCEPT ![r] = id]
          /\ IF get(ai_data[r].questions, <<>>) # <<>>
             THEN /\ pc' = [pc EXCEPT ![r] = "PersistingQuestions"]
                  /\ Call(r, "db_questions")
                  /\ UNCHANGED <<log, escaped, stages, fs>>
             ELSE /\ api_finish(r, <<"ZeroQuestions">>)
                  /\ UNCHANGED calls
    /\ UNCHANGED <<entry, response, url, form, video_path, audio_path, duration, handle,
                   transcript_len, ai_data, filename, public_url, storage, questions>>

\* 7. Insert Questions
api_insert_questions(r) ==
    /\ pc[r] = "PersistingQuestions"
    /\ entry[r] = "api"
    /\ \/ \* the insert raises
          /\ api_finish(r, <<"DBSaveError">>)
          /\ UNCHANGED questions
       \/ /\ questions' = questions \o api_q_inserts(r, new_id[r])
          /\ api_finish(r, <<"Success">>)
    /\ UNCHANGED <<entry, response, url, form, locals, calls, storage, content_library>>

ApiNext(r) ==
    \/ \E u \in Urls : capture_video(r, u)
    \/ api_start(r)
    \/ api_download(r)
    \/ api_extract_audio(r)
    \/ api_transcribe(r)
    \/ api_synthesize(r)
    \/ api_upload(r)
    \/ api_insert_content(r)
    \/ api_insert_questions(r)

\* ---- admin.py ------------------------------------------------------------
\* the upload form is submitted: process_video is called, or the warning shown
submit_form(r, f) ==
    /\ pc[r] = "idle"
    /\ \A s \in Runs : s < r => pc[s] # "idle"
    /\ entry' = [entry EXCEPT ![r] = "admin"]
    /\ form' = [form EXCEPT ![r] = f]
    /\ IF f.file /\ f.title # <<>>
       THEN \* process_video runs inside the script run: nothing is answered first
            Enter(r, "Acquiring") /\ UNCHANGED <<log, response>>
       ELSE /\ pc' = [pc EXCEPT ![r] = "Rejected"]
            /\ response' = [response EXCEPT ![r] = "warning"]
            /\ Say(r, <<"FormWarning">>)
            /\ UNCHANGED stages
    /\ UNCHANGED <<url, locals, calls, escaped, fs, stores>>

\* 1. Save to Temp File
admin_acquire(r) ==
    /\ pc[r] = "Acquiring"
    /\ entry[r] = "admin"
    /\ video_path' = [video_path EXCEPT ![r] = named_temporary_file(r)]
    /\ audio_path' = [audio_path EXCEPT ![r] = temp_audio]
    /\ fs' = write_file(fs, named_temporary_file(r), r)
    /\ Enter(r, "ExtractingAudio")
    /\ Call(r, "decode")
    /\ UNCHANGED <<entry, response, url, form, duration, handle, transcript_len, ai_data,
                   filename, public_url, new_id, log, escaped, stores>>

\* 2. Extract Audio
admin_extract_audio(r) ==
    /\ pc[r] = "ExtractingAudio"
    /\ entry[r] = "admin"
    /\ \/ \* VideoFileClip raises
          /\ Return(r, "ErrorProcessingVideo")
          /\ UNCHANGED <<duration, handle, fs, stages, calls>>
       \/ \E d \in Durations, written \in BOOLEAN, partial \in BOOLEAN :
            /\ exists(fs, video_path[r])
            /\ duration' = [duration EXCEPT ![r] = d]
            /\ IF written
               THEN /\ partial
                    /\ fs' = write_file(fs, audio_path[r], r)
                    /\ handle' = [handle EXCEPT ![r] = "closed"]
                    /\ Enter(r, "Transcribing")
                    /\ Calls(r, {"write_audiofile", "whisper"})
                    /\ UNCHANGED <<log, escaped>>
               ELSE \* write_audiofile raises, the handle is not closed
                    /\ fs' = IF partial THEN write_file(fs, audio_path[r], r) ELSE fs
                    /\ handle' = [handle EXCEPT ![r] = "open"]
                    /\ Return(r, "ErrorProcessingVideo")
                    /\ Calls(r, {"write_audiofile"})
                    /\ UNCHANGED stages
    /\ UNCHANGED <<entry, response, url, form, video_path, audio_path, transcript_len,
                   ai_data, filename, public_url, new_id, stores>>

\* 3. Transcribe, then the storage key of step 4
admin_transcribe(r) ==
    /\ pc[r] = "Transcribing"
    /\ entry[r] = "admin"
    /\ \/ \* open(audio_path) or the speech service raises
          /\ Raise(r)
          /\ UNCHANGED <<transcript_len, filename, stages, calls>>
       \/ \E n \in TranscriptLens :
            /\ exists(fs, audio_path[r])
            /\ transcript_len' = [transcript_len EXCEPT ![r] = n]
            /\ filename' = [filename EXCEPT ![r] = admin_filename(form[r].title)]
            /\ Enter(r, "Publishing")
            /\ Call(r, "upload")
            /\ UNCHANGED <<log, escaped>>
    /\ UNCHANGED <<entry, response, url, form, video_path, audio_path, duration, handle,
                   ai_data, public_url, new_id, fs, stores>>

\* 4. Upload to Supabase Storage
admin_upload(r) ==
    /\ pc[r] = "Publishing"
    /\ entry[r] = "admin"
    /\ \/ \* open(temp_video_path) or the upload raises
          /\ Raise(r)
          /\ UNCHANGED <<storage, public_url, stages, calls>>
       \/ /\ exists(fs, video_path[r])
          /\ storage' = upload(storage, filename[r], r)
          /\ public_url' = [public_url EXCEPT ![r] = get_public_url(filename[r])]
          /\ Enter(r, "Synthesizing")
          /\ Call(r, "gpt")
          /\ UNCHANGED <<log, escaped>>
    /\ UNCHANGED <<entry, response, url, form, video_path, audio_path, duration, handle,
                   transcript_len, ai_data, filename, new_id, fs, content_library,
                   questions>>

\* 5. Generate Questions (AI)
admin_synthesize(r) ==
    /\ pc[r] = "Synthesizing"
    /\ entry[r] = "admin"
    /\ \/ \* the request or json.loads raises
          /\ Raise(r)
          /\ UNCHANGED <<ai_data, stages, calls>>
       \/ \E resp \in Responses :
            /\ ai_data' = [ai_data EXCEPT ![r] = resp]
            /\ Enter(r, "Persisting")
            /\ Call(r, "db_content")
            /\ UNCHANGED <<log, escaped>>
    /\ UNCHANGED <<entry, response, url, form, video_path, audio_path, duration, handle,
                   transcript_len, filename, public_url, new_id, fs, stores>>

\* full_category of process_video
full_category(f) ==
    IF f.sub_category # "" THEN <<f.category, " > ", f.sub_category>> ELSE <<f.category>>

\* video_data of process_video, as stored with the id the table assigns
admin_video_data(r, id) ==
    [id |-> id, by |-> r,
     video_url |-> public_url[r],
     title |-> form[r].title,
     transcript_len |-> transcript_len[r],
     category |-> full_category(form[r]),
     sub_category |-> {},
     duration_seconds |-> duration[r]]

\* item['stage'], item['q'], item['correct'], item['wrong'] all exist
has_all_keys(item) == item.stage # {} /\ item.q # {} /\ item.correct # {} /\ item.wrong # {}

\* the loop over questions_json['questions'] runs without a KeyError
admin_rows_ok(resp) ==
    /\ resp.questions # {}
    /\ \A i \in 1..Len(get(resp.questions, <<>>)) : has_all_keys(get(resp.questions, <<>>)[i])

\* the rows process_video builds from the questions of the response
admin_q_inserts(r, id) ==
    LET qs == get(ai_data[r].questions, <<>>) IN
    [i \in 1..Len(qs) |->
       [video_id |-> id, by |-> r,
        difficulty_phase |-> get(qs[i].stage, 0),
        question_text |-> get(qs[i].q, ""),
        correct_answer |-> get(qs[i].correct, ""),
        wrong_options |-> get(qs[i].wrong, <<>>)]]

\* 6. Save to Database: the content_library insert, then the rows are built
admin_insert_content(r) ==
    /\ pc[r] = "Persisting"
    /\ entry[r] = "admin"
    /\ \/ \* the insert raises
          /\ Raise(r)
          /\ UNCHANGED <<content_library, new_id, calls>>
       \/ LET id == Len(content_library) + 1 IN
          /\ content_library' = Append(content_library, admin_video_data(r, id))
          /\ new_id' = [new_id EXCEPT ![r] = id]
          /\ IF admin_rows_ok(ai_data[r])
             THEN /\ pc' = [pc EXCEPT ![r] = "PersistingQuestions"]
                  /\ Call(r, "db_questions")
                  /\ UNCHANGED <<log, escaped>>
             ELSE \* KeyError
                  /\ Raise(r)
                  /\ UNCHANGED calls
    /\ UNCHANGED <<entry, response, url, form, video_path, audio_path, duration, handle,
                   transcript_len, ai_data, filename, public_url, stages, fs, storage,
                   questions>>

\* the questions insert, then Cleanup: os.remove raises when the file is gone
admin_insert_questions(r) ==
    /\ pc[r] = "PersistingQuestions"
    /\ entry[r] = "admin"
    /\ \/ \* the insert raises
          /\ Raise(r)
          /\ UNCHANGED <<questions, fs>>
       \/ /\ questions' = questions \o admin_q_inserts(r, new_id[r])
          /\ IF ~exists(fs, video_path[r])
             THEN Raise(r) /\ UNCHANGED fs
             ELSE IF ~exists(fs, audio_path[r])
             THEN Raise(r) /\ fs' = remove(fs, video_path[r])
             ELSE /\ fs' = remove(remove(fs, video_path[r]), audio_path[r])
                  /\ Say(r, <<"Done">>)
                  /\ pc' = [pc EXCEPT ![r] = "Done"]
                  /\ UNCHANGED escaped
    /\ UNCHANGED <<entry, response, url, form, locals, stages, calls, storage, content_library>>

AdminNext(r) ==
    \/ \E f \in Forms : submit_form(r, f)
    \/ admin_acquire(r)
    \/ admin_extract_audio(r)
    \/ admin_transcribe(r)
    \/ admin_upload(r)
    \/ admin_synthesize(r)
    \/ admin_insert_content(r)
    \/ admin_insert_questions(r)

Next == \E r \in Runs : ApiNext(r) \/ AdminNext(r)

Spec == Init /\ [][Next]_vars

\* the steps of a started run_pipeline: each external call returns or raises
ApiRun(r) ==
    \/ api_start(r)
    \/ api_download(r)
    \/ api_extract_audio(r)
    \/ api_transcribe(r)
    \/ api_synthesize(r)
    \/ api_upload(r)
    \/ api_insert_content(r)
    \/ api_insert_questions(r)

\* concurrent runs of run_pipeline alone
ApiOnlyNext == \E r \in Runs : ApiNext(r)

\* every external call of a started run eventually returns or raises
FairApiSpec == Init /\ [][ApiOnlyNext]_vars /\ \A r \in Runs : WF_vars(ApiRun(r))

\* ---- properties ----------------------------------------------------------
Order == <<"Acquiring", "ExtractingAudio", "Transcribing", "Synthesizing",
           "Publishing", "Persisting">>

Range(seq) == {seq[i] : i \in 1..Len(seq)}
Last(seq) == seq[Len(seq)]

RecordsBy(r) == {i \in 1..Len(content_library) : content_library[i].by = r}
QuestionsBy(r) == {i \in 1..Len(questions) : questions[i].by = r}
ObjectsBy(r) == {o \in storage : o.by = r}
FilesBy(r) == {f \in fs : f.by = r}

ErrorMessages == {"EmptyUrl", "DownloadFailed", "TooShort", "AudioError",
                  "TranscriptTooShort", "AIJSONError", "UploadError", "DBSaveError",
                  "ErrorProcessingVideo"}

\* the run printed an error of a stage, or ended with an exception's traceback
ReportsFailure(r) == escaped[r] \/ Range(log[r]) \cap ErrorMessages # {}

\* the run printed its completion line
ReportsSuccess(r) == Range(log[r]) \cap {"Complete", "Done"} # {}

\* the run ended without completing every stage
Failed(r) == pc[r] \in Terminal /\ ReportsFailure(r)

FailedIn(r, s) == pc[r] = "Aborted" /\ stages[r] # <<>> /\ Last(stages[r]) = s

\* the url of rec is the address of an object in the bucket
Referenced(o) == \E i \in 1..Len(content_library) :
                    content_library[i].video_url = get_public_url(o.key)

\* C1: when a run of either entry point has ended, on any exit path, no temporary
\* video or audio file that the run wrote is left on disk.
C1_TempFilesDeleted ==
    \A r \in Runs : pc[r] \in Terminal => FilesBy(r) = {}

\* C2: a run that failed at any stage has left no ContentRecord, no QuestionRecord
\* and no uploaded object that no ContentRecord references.
C2_FailedRunLeavesNothing ==
    \A r \in Runs :
        Failed(r) =>
            /\ RecordsBy(r) = {}
            /\ QuestionsBy(r) = {}
            /\ \A o \in ObjectsBy(r) : Referenced(o)

\* C3: a run of run_pipeline that ended with its completion report inserted exactly
\* one ContentRecord and as many QuestionRecords as the response had questions.
C3_SuccessCounts ==
    \A r \in Runs :
        (entry[r] = "api" /\ pc[r] \in Terminal /\ ReportsSuccess(r)) =>
            /\ Cardinality(RecordsBy(r)) = 1
            /\ Cardinality(QuestionsBy(r)) = Len(get(ai_data[r].questions, <<>>))

\* C4: every ContentRecord was inserted by a run whose upload had completed and
\* whose public URL had been obtained (it is the record's non-empty video_url), and
\* a run whose publishing failed has inserted no ContentRecord.
C4_PublishedBeforePersisted ==
    /\ \A i \in 1..Len(content_library) :
         LET rec == content_library[i] IN
         /\ "upload" \in calls[rec.by]
         /\ public_url[rec.by] # <<>>
         /\ rec.video_url = public_url[rec.by]
         /\ Len(rec.video_url) > 1
    /\ \A r \in Runs :
         (FailedIn(r, "Publishing") \/ public_url[r] = <<>>) => RecordsBy(r) = {}

C4_Witness ==
    /\ \E r \in Runs : entry[r] = "api" /\ RecordsBy(r) # {}
    /\ \E r \in Runs : FailedIn(r, "Publishing") /\ ObjectsBy(r) = {}

\* C5: every QuestionRecord's video_id is the id of an existing ContentRecord that
\* the same run inserted, and a run has started the questions insert only after
\* its ContentRecord insert returned that id.
C5_ParentBeforeChildren ==
    /\ \A j \in 1..Len(questions) :
         \E i \in 1..Len(content_library) :
            /\ content_library[i].id = questions[j].video_id
            /\ content_library[i].by = questions[j].by
    /\ \A i, k \in 1..Len(content_library) :
         content_library[i].id = content_library[k].id => i = k
    /\ \A r \in Runs :
         "db_questions" \in calls[r] =>
            /\ new_id[r] # 0
            /\ \E i \in RecordsBy(r) : content_library[i].id = new_id[r]
    /\ \A r \in Runs : RecordsBy(r) = {} => QuestionsBy(r) = {}

C5_Witness ==
    /\ \E r \in Runs : entry[r] = "api" /\ QuestionsBy(r) # {}
    /\ \E r \in Runs : entry[r] = "admin" /\ QuestionsBy(r) # {}

\* C6: a run of run_pipeline whose transcript has fewer than 20 characters is
\* aborted and has made no generative request, no upload and no record.
C6_ShortTranscriptAborts ==
    \A r \in Runs :
        (entry[r] = "api" /\ transcript_len[r] >= 0 /\ transcript_len[r] < 20) =>
            /\ pc[r] = "Aborted"
            /\ calls[r] \cap {"gpt", "upload", "db_content", "db_questions"} = {}
            /\ ObjectsBy(r) = {}
            /\ RecordsBy(r) = {}
            /\ QuestionsBy(r) = {}

C6_Witness ==
    \E r \in Runs :
        /\ entry[r] = "api"
        /\ transcript_len[r] = 19
        /\ FailedIn(r, "Transcribing")
        /\ Last(log[r]) = "TranscriptTooShort"

\* C7: a run of run_pipeline whose video lasts less than 5 seconds is aborted in the
\* audio-extraction stage: write_audiofile and the speech service are never called
\* and nothing durable is created.
C7_ShortVideoAborts ==
    \A r \in Runs :
        (entry[r] = "api" /\ duration[r] >= 0 /\ duration[r] < 5) =>
            /\ FailedIn(r, "ExtractingAudio")
            /\ calls[r] \cap {"write_audiofile", "whisper"} = {}
            /\ \A f \in FilesBy(r) : f.path = video_path[r]
            /\ ObjectsBy(r) = {}
            /\ RecordsBy(r) = {}
            /\ QuestionsBy(r) = {}

C7_Witness ==
    \E r \in Runs :
        /\ entry[r] = "api"
        /\ duration[r] = 4
        /\ Last(log[r]) = "TooShort"

\* C8: process_video aborts a video shorter than 5 seconds before transcription and
\* a transcript shorter than 20 characters before any upload or record insert.
C8_AdminGuards ==
    \A r \in Runs :
        entry[r] = "admin" =>
            /\ (duration[r] >= 0 /\ duration[r] < 5) => "whisper" \notin calls[r]
            /\ (transcript_len[r] >= 0 /\ transcript_len[r] < 20) =>
                  calls[r] \cap {"upload", "db_content", "db_questions"} = {}

\* C9: a run of run_pipeline that has ended has reported success or the failure of
\* a stage, and not both.
C9_OneOutcome ==
    \A r \in Runs :
        (entry[r] = "api" /\ pc[r] \in Terminal) =>
            /\ ReportsSuccess(r) \/ ReportsFailure(r)
            /\ ~(ReportsSuccess(r) /\ ReportsFailure(r))

\* C10: the stages a run has started are, in order, an initial part of Acquiring,
\* ExtractingAudio, Transcribing, Synthesizing, Publishing, Persisting, and a run
\* that is Done has started all of them.
C10_StageOrder ==
    \A r \in Runs :
        /\ Len(stages[r]) <= Len(Order)
        /\ \A i \in 1..Len(stages[r]) : stages[r][i] = Order[i]
        /\ pc[r] = "Done" => stages[r] = Order

\* the parsed response of run r has a 'metadata' that is not an object
NullMetadata(r) == ai_data[r].metadata = {NullMeta}

\* C11: a run of run_pipeline that stopped in a stage because the stage's external
\* call failed has printed an error and no exception has left run_pipeline, and a
\* run that printed the database error has ended Aborted, not Done.
C11_FailuresHandled ==
    \A r \in Runs :
        entry[r] = "api" =>
            /\ \A s \in Range(Order) :
                 (FailedIn(r, s) /\ ~NullMetadata(r)) =>
                     /\ ~escaped[r]
                     /\ Range(log[r]) \cap ErrorMessages # {}
            /\ "DBSaveError" \in Range(log[r]) => pc[r] = "Aborted"

\* the local paths run r is using
PathsOf(r) == {video_path[r], audio_path[r]} \ {NoPath}

Active(r) == pc[r] \notin {"idle", "queued", "Rejected", "Done", "Aborted"}

\* C12: two runs that are active at the same time use no local path in common.
C12_PathsExclusive ==
    \A r, s \in Runs :
        (r # s /\ Active(r) /\ Active(s)) => PathsOf(r) \cap PathsOf(s) = {}

\* C16: once the audio-extraction stage of a run has returned, the run's clip, if it
\* was opened, is closed.
C16_HandleClosed ==
    \A r \in Runs : pc[r] # "ExtractingAudio" => handle[r] # "open"

\* the submission of run r lacks a required field
MissingFields(r) ==
    \/ entry[r] = "api" /\ url[r] = ""
    \/ entry[r] = "admin" /\ ~(form[r].file /\ form[r].title # <<>>)

\* C17: a submission with a missing required field is rejected and starts no run,
\* and a run that has started a stage was acknowledged before.
C17_TriggerSurface ==
    \A r \in Runs :
        entry[r] # "none" =>
            IF MissingFields(r)
            THEN response[r] = "warning" /\ pc[r] = "Rejected"
            ELSE stages[r] # <<>> => response[r] = "processing"

\* C13: every QuestionRecord has a difficulty_phase in 0..4 and exactly 3
\* wrong_options, and no synthesized question is dropped: a run that has ended
\* after its ContentRecord insert without sending a questions insert had no
\* questions, and a run that completed without an error persisted all of them.
C13_QuestionsValid ==
    /\ \A j \in 1..Len(questions) :
         /\ questions[j].difficulty_phase \in 0..4
         /\ Len(questions[j].wrong_options) = 3
    /\ \A r \in Runs :
         LET qs == get(ai_data[r].questions, <<>>) IN
         /\ (pc[r] \in Terminal /\ new_id[r] # 0 /\ "db_questions" \notin calls[r]) =>
               Len(qs) = 0
         /\ (pc[r] = "Done" /\ ~ReportsFailure(r)) => Cardinality(QuestionsBy(r)) = Len(qs)

\* C14: a ContentRecord of run_pipeline has the title "Untitled", the category
\* "General" and a null sub_category wherever the response omitted the field, a
\* parsed response that omits metadata never aborts the run in Synthesizing, and a
\* run that completed without an error on a response without questions inserted
\* exactly one ContentRecord and no QuestionRecord.
C14_MetadataDefaults ==
    /\ \A i \in 1..Len(content_library) :
         LET rec == content_library[i]
             meta == get(ai_data[rec.by].metadata, NoMeta) IN
         entry[rec.by] = "api" =>
            /\ meta.title = {} => rec.title = Untitled
            /\ meta.category = {} => rec.category = <<"General">>
            /\ meta.sub_category = {} => rec.sub_category = {}
    /\ \A r \in Runs :
         (entry[r] = "api" /\ FailedIn(r, "Synthesizing") /\ escaped[r]) => NullMetadata(r)
    /\ \A r \in Runs :
         (/\ entry[r] = "api"
          /\ pc[r] = "Done"
          /\ ~ReportsFailure(r)
          /\ get(ai_data[r].questions, <<>>) = <<>>) =>
            /\ Cardinality(RecordsBy(r)) = 1
            /\ QuestionsBy(r) = {}

C14_Witness ==
    /\ \E r \in Runs :
         /\ entry[r] = "api"
         /\ pc[r] = "Done"
         /\ ai_data[r] = [metadata |-> {}, questions |-> {<<>>}]
         /\ \E i \in RecordsBy(r) :
              /\ content_library[i].title = Untitled
              /\ content_library[i].category = <<"General">>
              /\ content_library[i].sub_category = {}
    /\ \E r \in Runs :
         /\ entry[r] = "api"
         /\ ai_data[r].metadata = {CategoryOnlyMeta}
         /\ \E i \in RecordsBy(r) : content_library[i].title = Untitled

\* the storage key without its ".mp4" suffix
KeyName(key) == SubSeq(key, 1, Len(key) - 1)

\* the key derivation of the entry point that uploaded o
DeriveAgain(o) ==
    IF entry[o.by] = "api" THEN api_filename(KeyName(o.key)) ELSE admin_filename(KeyName(o.key))

\* C15: every storage key's name consists of alphanumeric characters, underscores
\* and hyphens only, deriving a key from a derived name gives the same key, and the
\* bucket holds one object per key.
C15_SafeKeys ==
    /\ \A o \in storage :
         /\ \A i \in 1..Len(KeyName(o.key)) :
              isalnum(KeyName(o.key)[i]) \/ KeyName(o.key)[i] \in {"_", "-"}
         /\ DeriveAgain(o) = o.key
    /\ \A o1, o2 \in storage : o1.key = o2.key => o1 = o2

\* C19: a run of run_pipeline that entered Persisting ends Done with none of its
\* temporary files left, whichever insert failed, and when the questions insert
\* failed its ContentRecord is in the table with no QuestionRecord.
C19_PersistingCleansUp ==
    \A r \in Runs :
        (entry[r] = "api" /\ "Persisting" \in Range(stages[r]) /\ pc[r] \in Terminal) =>
            /\ pc[r] = "Done"
            /\ FilesBy(r) = {}
            /\ ~exists(fs, video_path[r]) \/ \E f \in fs : f.path = video_path[r] /\ f.by # r
            /\ ("db_questions" \in calls[r] /\ "DBSaveError" \in Range(log[r])) =>
                  /\ Cardinality(RecordsBy(r)) = 1
                  /\ QuestionsBy(r) = {}
            /\ "db_questions" \notin calls[r] /\ "DBSaveError" \in Range(log[r]) =>
                  RecordsBy(r) = {}

C19_Witness ==
    \E r \in Runs :
        /\ entry[r] = "api"
        /\ pc[r] = "Done"
        /\ "db_questions" \in calls[r]
        /\ "DBSaveError" \in Range(log[r])
        /\ RecordsBy(r) # {}
        /\ audio_path[r] # video_path[r]

NoRepeats(seq) == \A i, j \in 1..Len(seq) : seq[i] = seq[j] => i = j

\* C18: when every external call eventually returns or fails, every queued run of
\* run_pipeline eventually is Done or Aborted, and no run starts a stage twice.
C18_Terminates ==
    /\ [](\A r \in Runs : NoRepeats(stages[r]))
    /\ \A r \in Runs : (pc[r] = "queued") ~> (pc[r] \in Terminal)

C18_Witness ==
    /\ \E r \in Runs : pc[r] = "Done" /\ stages[r] = Order
    /\ \E r \in Runs : pc[r] = "Aborted" /\ escaped[r]

\* C20: every ContentRecord's video_url is the address of an object in the bucket;
\* the runs whose ContentRecord insert returned got distinct ids, each of its own
\* record; a run blocked in its upload can complete it whatever the bucket holds;
\* and after an upload the one object under its key is that run's.
C20_SharedKeyUploads ==
    /\ [](\A i \in 1..Len(content_library) :
            \E o \in storage : content_library[i].video_url = get_public_url(o.key))
    /\ [](\A r \in Runs :
            new_id[r] # 0 =>
               /\ \E i \in RecordsBy(r) : content_library[i].id = new_id[r]
               /\ \A s \in Runs \ {r} : new_id[s] # new_id[r])
    /\ [](\A r \in Runs :
            (entry[r] = "api" /\ pc[r] = "Publishing" /\ exists(fs, video_path[r])) =>
               ENABLED api_upload_try(r))
    /\ [][\A r \in Runs :
            (public_url[r] = <<>> /\ public_url'[r] # <<>>) =>
               {o \in storage' : o.key = filename[r]} = {[key |-> filename[r], by |-> r]}]_vars

C20_Witness ==
    \E r, s \in Runs :
        /\ r # s
        /\ entry[r] = "api" /\ entry[s] = "api"
        /\ filename[r] = filename[s]
        /\ new_id[r] # 0 /\ new_id[s] # 0
        /\ \E o \in storage : o.key = filename[r] /\ o.by = s

====
